---- MODULE Spec2Model ----
(***************************************************************************)
(* Model of odoo_rag: the module indexer (indexer.py), the vector store    *)
(* wrapper (vectorstore.py), the retrieval-augmented answer operations     *)
(* (rag.py) and the command line with its interactive session (cli.py).    *)
(* Spec drives the library operations, SpecIndexer the indexer on a        *)
(* changing directory, SpecCli the subcommands.                            *)
(* Python values are tagged records, text is TLA+ strings and              *)
(* string operations (lower, "in", endswith, f-strings) are computed       *)
(* character by character.                                                 *)
(***************************************************************************)
EXTENDS Integers, Sequences, FiniteSets, TLC

VARIABLES
    fs,        \* the addons directory: package name -> package tree
    modules,   \* OdooModuleParser.modules: sequence of <<name, module_data>> (insertion-ordered dict)
    chunks,    \* the list last returned by extract_chunks_for_embedding
    store,     \* the ChromaDB collection: sequence of [id, content, metadata]
    op,        \* the most recent operation: its name, arguments, external calls and outcome
    session    \* the interactive session: whether its loop runs, its llm settings, current_filter

vars == <<fs, modules, chunks, store, op, session>>

-----------------------------------------------------------------------------
(* Bounds *)

MaxStore == 6      \* largest number of documents the collection may hold

-----------------------------------------------------------------------------
(* Python values *)

PyNone == [t |-> "none", v |-> "None"]
PyStr(s) == [t |-> "str", v |-> s]
PyInt(n) == [t |-> "int", v |-> ToString(n)]
PyBool(b) == [t |-> "bool", v |-> IF b THEN "True" ELSE "False"]

\* str(x) / f"{x}"
PyFormat(x) == x.v

\* truth value of x, as used by "or", "if x"
Truthy(x) == IF x.t = "none" THEN FALSE
             ELSE IF x.t = "str" THEN x.v # ""
             ELSE IF x.t = "bool" THEN x.v = "True"
             ELSE x.v # "0"

\* x or y
PyOr(x, y) == IF Truthy(x) THEN x ELSE y

-----------------------------------------------------------------------------
(* Strings *)

UpperChars == <<"A","B","C","D","E","F","G","H","I","J","K","L","M",
                "N","O","P","Q","R","S","T","U","V","W","X","Y","Z">>
LowerChars == <<"a","b","c","d","e","f","g","h","i","j","k","l","m",
                "n","o","p","q","r","s","t","u","v","w","x","y","z">>

LowerChar(c) ==
    IF \E i \in 1..26 : UpperChars[i] = c
    THEN LowerChars[CHOOSE i \in 1..26 : UpperChars[i] = c]
    ELSE c

RECURSIVE LowerFrom(_, _)
LowerFrom(s, i) ==
    IF i > Len(s) THEN ""
    ELSE LowerChar(SubSeq(s, i, i)) \o LowerFrom(s, i + 1)

\* str.lower()
Lower(s) == LowerFrom(s, 1)

\* kw in s
Contains(s, kw) ==
    \E i \in 1..(Len(s) - Len(kw) + 1) : SubSeq(s, i, i + Len(kw) - 1) = kw

\* s.endswith(suffix): how glob('*.py') matches a file name
EndsWith(s, suffix) ==
    /\ Len(s) >= Len(suffix)
    /\ SubSeq(s, Len(s) - Len(suffix) + 1, Len(s)) = suffix

\* s.startswith(prefix)
StartsWith(s, prefix) ==
    /\ Len(s) >= Len(prefix)
    /\ SubSeq(s, 1, Len(prefix)) = prefix

RECURSIVE LStrip(_)
LStrip(s) ==
    IF Len(s) > 0 /\ SubSeq(s, 1, 1) = " " THEN LStrip(SubSeq(s, 2, Len(s))) ELSE s

RECURSIVE RStrip(_)
RStrip(s) ==
    IF Len(s) > 0 /\ SubSeq(s, Len(s), Len(s)) = " "
    THEN RStrip(SubSeq(s, 1, Len(s) - 1)) ELSE s

\* str.strip(), the blanks of the inputs being spaces
Strip(s) == RStrip(LStrip(s))

RECURSIVE SplitFrom(_, _, _)
SplitFrom(s, i, word) ==
    IF i > Len(s) THEN (IF word = "" THEN <<>> ELSE <<word>>)
    ELSE IF SubSeq(s, i, i) = " "
         THEN (IF word = "" THEN <<>> ELSE <<word>>) \o SplitFrom(s, i + 1, "")
         ELSE SplitFrom(s, i + 1, word \o SubSeq(s, i, i))

\* str.split(): the runs of non-blank characters
Split(s) == SplitFrom(s, 1, "")

RECURSIVE Join(_, _)
\* sep.join(parts)
Join(sep, parts) ==
    IF Len(parts) = 0 THEN ""
    ELSE IF Len(parts) = 1 THEN parts[1]
    ELSE parts[1] \o sep \o Join(sep, Tail(parts))

Reverse(seq) == [i \in 1..Len(seq) |-> seq[Len(seq) + 1 - i]]

RECURSIVE Flatten(_)
\* concatenation of a sequence of sequences
Flatten(ss) == IF Len(ss) = 0 THEN <<>> ELSE Head(ss) \o Flatten(Tail(ss))

-----------------------------------------------------------------------------
(* The addons directory: the inputs of the indexer.                        *)
(* A package tree is [manifest, files]; files are in glob order.  A python *)
(* file carries its syntax tree (top-level classes), a markup file its     *)
(* <record> elements.                                                      *)

ModulesPath == "addons"
PackageNames == {"sale_ext", "base_ext"}

Const(v) == [node |-> "Constant", value |-> v]
Name(id) == [node |-> "Name", id |-> id]
\* a.b.c as nested ast.Attribute: attrs from the outermost inwards, root is
\* the innermost value (an ast.Name, or something else such as a call)
Attribute(attrs, root) == [node |-> "Attribute", attrs |-> attrs, root |-> root]
FieldCall(ftype, kws) ==
    [node |-> "Call", func |-> Attribute(<<ftype>>, Name("fields")), keywords |-> kws]
Assign(target, value) == [stmt |-> "Assign", targets |-> <<Name(target)>>, value |-> value]
FunctionDef(name, l1, l2, decos) ==
    [stmt |-> "FunctionDef", name |-> name, lineno |-> l1, end_lineno |-> l2,
     decorator_list |-> decos]
ClassDef(name, bases, l1, l2, body) ==
    [name |-> name, bases |-> bases, lineno |-> l1, end_lineno |-> l2, body |-> body]

PyFile(dir, name, classes) ==
    [dir |-> dir, name |-> name, decodable |-> TRUE, parses |-> TRUE,
     classes |-> classes, records |-> <<>>]
XmlFile(dir, name, records) ==
    [dir |-> dir, name |-> name, decodable |-> TRUE, parses |-> TRUE,
     classes |-> <<>>, records |-> records]
OtherFile(dir, name) ==
    [dir |-> dir, name |-> name, decodable |-> TRUE, parses |-> TRUE,
     classes |-> <<>>, records |-> <<>>]

\* <field name=... type=...>text<child/></field>
XmlField(name, type, text, child) ==
    [name |-> name, type |-> type, text |-> text, child |-> child]
\* <record id=... model=...> with its direct <field> children
XmlRecord(id, model, fields) == [id |-> id, model |-> model, fields |-> fields]

ManifestOk(entries) ==
    [exists |-> TRUE, decodable |-> TRUE, literal |-> "dict", entries |-> entries]
ManifestBroken(kind) ==
    [exists |-> TRUE, decodable |-> TRUE, literal |-> kind, entries |-> <<>>]
\* a manifest whose text is not a literal although key: value entries can
\* be read in it
ManifestUnparsable(kind, entries) ==
    [exists |-> TRUE, decodable |-> TRUE, literal |-> kind, entries |-> entries]
ManifestAbsent ==
    [exists |-> FALSE, decodable |-> TRUE, literal |-> "dict", entries |-> <<>>]

\* class SaleOrderExt(models.Model) with a technical name, a labelled field
\* and a decorated method; a form view for it; a script and an access file
TreeSale ==
    [manifest |-> ManifestOk(<< <<"name", "'Sale Extension'">>, <<"depends", "['sale']">> >>),
     files |-> <<
        PyFile("models", "sale.py", <<
            ClassDef("SaleOrderExt", <<Attribute(<<"Model", "models">>, Name("odoo")),
                                       Attribute(<<"Model">>, Name("models"))>>, 3, 9, <<
                Assign("_name", Const(PyStr("sale.order.ext"))),
                Assign("_description", Const(PyStr("Sale Ext"))),
                Assign("note", FieldCall("Char", << [arg |-> "string", value |-> Const(PyStr("Note"))],
                                                    [arg |-> "required", value |-> Const(PyBool(TRUE))],
                                                    [arg |-> "help", value |-> Name("HELP")] >>)),
                FunctionDef("action_confirm", 7, 9, <<Name("api_multi"),
                                                      Attribute(<<"multi">>, Name("api"))>>) >>) >>),
        XmlFile("views", "sale_view.xml", <<
            XmlRecord(PyStr("view_sale_form"), PyStr("ir.ui.view"), <<
                XmlField(PyStr("name"), PyNone, PyStr("sale.form"), PyNone),
                XmlField(PyStr("model"), PyNone, PyStr("sale.order.ext"), PyNone),
                XmlField(PyStr("arch"), PyStr("xml"), PyNone, PyStr("<form />")) >>),
            XmlRecord(PyStr("action_sale"), PyStr("ir.actions.act_window"), <<
                XmlField(PyStr("name"), PyNone, PyStr("Sales"), PyNone) >>) >>),
        OtherFile("static/src", "app.js"),
        OtherFile("security", "ir.model.access.csv") >>]

\* an extension class without a technical name on a directly-imported
\* base, a plain helper class, a class on the fully qualified base
\* odoo.models.Model, and views declared without an id
TreePartner ==
    [manifest |-> ManifestOk(<< <<"name", "'Partner'">> >>),
     files |-> <<
        PyFile("models", "partner.py", <<
            ClassDef("ResPartner", <<Name("Model")>>, 2, 4, <<
                Assign("_inherit", Const(PyStr("res.partner"))),
                Assign("_name", Name("NAME")),
                Assign("ref", FieldCall("Char", <<>>)) >>),
            ClassDef("Helper", <<Name("object")>>, 6, 7, <<>>),
            ClassDef("ResUsers", <<Attribute(<<"Model", "models">>, Name("odoo"))>>, 9, 10, <<
                Assign("_name", Const(PyStr("res.users.ext"))) >>) >>),
        XmlFile("views", "partner.xml", <<
            XmlRecord(PyNone, PyStr("ir.ui.view"), <<
                XmlField(PyStr("model"), PyNone, PyStr("sale.order.ext"), PyNone),
                XmlField(PyStr("inherit_id"), PyNone, PyNone, PyNone),
                XmlField(PyStr("arch"), PyStr("xml"), PyNone, PyNone) >>) >>) >>]

\* a manifest that is not a literal, a source file with a syntax error, a
\* malformed markup file and a model class outside the models directory
TreeBroken ==
    [manifest |-> ManifestUnparsable("SyntaxError",
                    << <<"name", "'Broken'">>, <<"version", "'1.0'">> >>),
     files |-> <<
        [PyFile("models", "bad.py", <<>>) EXCEPT !.parses = FALSE],
        PyFile("wizard", "wiz.py", <<
            ClassDef("Wiz", <<Attribute(<<"TransientModel">>, Name("models"))>>, 1, 2, <<
                Assign("_name", Const(PyStr("sale.wiz"))) >>) >>),
        [XmlFile("data", "bad.xml", <<>>) EXCEPT !.parses = FALSE],
        OtherFile("static", "lib.js") >>]

\* a package whose model file holds bytes that are not valid text
TreeBinary ==
    [manifest |-> ManifestBroken("ValueError"),
     files |-> << [PyFile("models", "latin.py", <<>>) EXCEPT !.decodable = FALSE] >>]

\* a directory without a manifest marker file
TreePlain == [manifest |-> ManifestAbsent, files |-> << OtherFile("", "notes.csv") >>]

-----------------------------------------------------------------------------
(* indexer.py: OdooModuleParser *)

\* an outcome of a call that may raise
Returned(v) == [raised |-> FALSE, value |-> v]
Raised == [raised |-> TRUE, value |-> <<>>]

\* str(self.modules_path / module_name / dir / name)
FilePath(module_name, f) ==
    ModulesPath \o "/" \o module_name \o
    (IF f.dir = "" THEN "" ELSE "/" \o f.dir) \o "/" \o f.name

ModulePath(module_name) == ModulesPath \o "/" \o module_name

\* a directory is a package iff it directly contains the manifest file
IsPackage(tree) == tree.manifest.exists

\* the manifest dict, {} when the file is missing or is not a literal;
\* reading undecodable bytes raises outside the try block
parse_manifest(tree) ==
    IF ~tree.manifest.exists THEN Returned(<<>>)
    ELSE IF ~tree.manifest.decodable THEN Raised
    ELSE IF tree.manifest.literal = "dict" THEN Returned(tree.manifest.entries)
    ELSE IF tree.manifest.literal \in {"SyntaxError", "ValueError"} THEN Returned(<<>>)
    ELSE Raised

_get_attribute_full_name(attr) ==
    LET parts == attr.attrs \o (IF attr.root.node = "Name" THEN <<attr.root.id>> ELSE <<>>)
    IN Join(".", Reverse(parts))

OrmBaseNames == {"Model", "TransientModel", "AbstractModel"}
OrmBasePaths == {"models.Model", "models.TransientModel", "models.AbstractModel"}

_is_odoo_model(class_def) ==
    \E i \in 1..Len(class_def.bases) :
        LET base == class_def.bases[i] IN
        \/ base.node = "Name" /\ base.id \in OrmBaseNames
        \/ base.node = "Attribute" /\ _get_attribute_full_name(base) \in OrmBasePaths

_is_field_definition(node) ==
    /\ node.node = "Call"
    /\ node.func.node = "Attribute"
    /\ Len(node.func.attrs) = 1
    /\ node.func.root.node = "Name"
    /\ node.func.root.id = "fields"

FieldInfoKeys == {"name", "type", "string", "required", "readonly", "comodel_name"}

RECURSIVE ApplyKeywords(_, _)
ApplyKeywords(field_info, kws) ==
    IF Len(kws) = 0 THEN field_info
    ELSE LET kw == Head(kws)
             next == IF kw.arg \in FieldInfoKeys /\ kw.value.node = "Constant"
                     THEN [field_info EXCEPT ![kw.arg] = kw.value.value]
                     ELSE field_info
         IN ApplyKeywords(next, Tail(kws))

_extract_field_info(name, call_node) ==
    LET field_info == [k \in FieldInfoKeys |->
                         CASE k = "name" -> PyStr(name)
                           [] k = "type" -> PyStr(call_node.func.attrs[1])
                           [] k \in {"required", "readonly"} -> PyBool(FALSE)
                           [] OTHER -> PyNone]
    IN ApplyKeywords(field_info, call_node.keywords)

\* ids of the targets that are plain names
TargetNames(stmt) ==
    LET names == SelectSeq(stmt.targets, LAMBDA t : t.node = "Name")
    IN [i \in 1..Len(names) |-> names[i].id]

RECURSIVE ExtractBody(_, _)
ExtractBody(model_info, body) ==
    IF Len(body) = 0 THEN model_info
    ELSE LET node == Head(body)
             targets == TargetNames(node)
             next ==
                IF node.stmt = "Assign" THEN
                    IF Len(targets) = 0 THEN model_info
                    ELSE IF targets[1] \in {"_name", "_inherit", "_description"} THEN
                        IF node.value.node = "Constant"
                        THEN [model_info EXCEPT ![targets[1]] = node.value.value]
                        ELSE model_info
                    ELSE IF _is_field_definition(node.value) THEN
                        [model_info EXCEPT !.fields =
                            Append(@, _extract_field_info(targets[1], node.value))]
                    ELSE model_info
                ELSE IF node.stmt = "FunctionDef" THEN
                    [model_info EXCEPT !.methods = Append(@,
                        [name |-> node.name, line_start |-> node.lineno,
                         line_end |-> node.end_lineno,
                         decorators |->
                            LET ds == SelectSeq(node.decorator_list, LAMBDA d : d.node = "Name")
                            IN [i \in 1..Len(ds) |-> ds[i].id]])]
                ELSE model_info
         IN ExtractBody(next, Tail(body))

_extract_model_info(class_def, file_path) ==
    ExtractBody(
        [name |-> class_def.name, file_path |-> file_path,
         line_start |-> class_def.lineno, line_end |-> class_def.end_lineno,
         _name |-> PyNone, _inherit |-> PyNone, _description |-> PyNone,
         fields |-> <<>>, methods |-> <<>>],
        class_def.body)

\* the model records of one python file; a syntax error gives none, and
\* undecodable content raises from read(), outside the try block
parse_model_file(f, file_path) ==
    IF ~f.decodable THEN Raised
    ELSE IF ~f.parses THEN Returned(<<>>)
    ELSE LET odoo == SelectSeq(f.classes, _is_odoo_model)
         IN Returned([i \in 1..Len(odoo) |-> _extract_model_info(odoo[i], file_path)])

ViewInfoKeys == {"id", "name", "model", "type", "arch", "inherit_id", "file_path"}

RECURSIVE ApplyXmlFields(_, _)
ApplyXmlFields(view_info, fields) ==
    IF Len(fields) = 0 THEN view_info
    ELSE LET field == Head(fields)
             next ==
                IF field.name.t = "str" /\ field.name.v \in ViewInfoKeys THEN
                    IF field.name.v = "arch" /\ field.type = PyStr("xml")
                    THEN [view_info EXCEPT ![field.name.v] = field.child]
                    ELSE [view_info EXCEPT ![field.name.v] = field.text]
                ELSE view_info
         IN ApplyXmlFields(next, Tail(fields))

\* the view records of one markup file; any parse failure gives none
parse_view_file(f, file_path) ==
    IF ~f.decodable \/ ~f.parses THEN <<>>
    ELSE LET recs == SelectSeq(f.records, LAMBDA r : r.model = PyStr("ir.ui.view"))
         IN [i \in 1..Len(recs) |->
                ApplyXmlFields(
                    [k \in ViewInfoKeys |->
                        CASE k = "id" -> recs[i].id
                          [] k = "file_path" -> PyStr(file_path)
                          [] OTHER -> PyNone],
                    recs[i].fields)]

\* the outcomes of parse_model_file over a sequence of files, stopping at
\* the first one that raises
RECURSIVE ParseModelFiles(_, _)
ParseModelFiles(module_name, files) ==
    IF Len(files) = 0 THEN Returned(<<>>)
    ELSE LET first == parse_model_file(Head(files), FilePath(module_name, Head(files)))
         IN IF first.raised THEN Raised
            ELSE LET rest == ParseModelFiles(module_name, Tail(files))
                 IN IF rest.raised THEN Raised
                    ELSE Returned(first.value \o rest.value)

\* model_dir.glob('*.py')
ModelFiles(tree) ==
    SelectSeq(tree.files, LAMBDA f : f.dir = "models" /\ EndsWith(f.name, ".py"))

\* module_path.glob('**/*' + suffix)
GlobAll(tree, suffix) == SelectSeq(tree.files, LAMBDA f : EndsWith(f.name, suffix))

\* the module_data built by index_module, or Raised
IndexModuleData(module_name, tree) ==
    LET manifest == parse_manifest(tree)
        models == ParseModelFiles(module_name, ModelFiles(tree))
        xmls == GlobAll(tree, ".xml")
        jss == GlobAll(tree, ".js")
        csvs == GlobAll(tree, ".csv")
    IN  IF manifest.raised \/ models.raised THEN Raised
        ELSE Returned(
            [name |-> module_name,
             path |-> ModulePath(module_name),
             manifest |-> manifest.value,
             models |-> models.value,
             views |-> Flatten([i \in 1..Len(xmls) |->
                            parse_view_file(xmls[i], FilePath(module_name, xmls[i]))]),
             scripts |-> [i \in 1..Len(jss) |->
                            [path |-> FilePath(module_name, jss[i]), name |-> jss[i].name]],
             data |-> [i \in 1..Len(csvs) |->
                            [path |-> FilePath(module_name, csvs[i]), name |-> csvs[i].name,
                             type |-> "csv"]]])

DictSetAppend(dict, key, value) == Append(dict, <<key, value>>)

\* self.modules[module_name] = module_data on an insertion-ordered dict
DictSet(dict, key, value) ==
    IF \E i \in 1..Len(dict) : dict[i][1] = key
    THEN [i \in 1..Len(dict) |-> IF dict[i][1] = key THEN <<key, value>> ELSE dict[i]]
    ELSE Append(dict, <<key, value>>)

DictKeys(dict) == {dict[i][1] : i \in 1..Len(dict)}
\* dict[key]
DictGet(dict, key) == dict[CHOOSE i \in 1..Len(dict) : dict[i][1] = key][2]
\* str(d) of a dict whose keys are strings and whose values are given by
\* their repr
DictStr(d) ==
    "{" \o Join(", ", [i \in 1..Len(d) |-> "'" \o d[i][1] \o "': " \o d[i][2]]) \o "}"

ManifestChunk(module_name, module_data) ==
    [content |-> "Module: " \o module_name \o "\nManifest: " \o DictStr(module_data.manifest),
     metadata |-> [module |-> PyStr(module_name),
                   type |-> PyStr("manifest"),
                   path |-> PyStr(module_data.path)]]

FieldLine(field) ==
    "  - " \o PyFormat(field["name"]) \o " (" \o PyFormat(field["type"]) \o "): "
           \o PyFormat(field["string"]) \o "\n"

MethodLine(method) ==
    "  - " \o method.name \o
    (IF Len(method.decorators) > 0
     THEN " (decorated with: " \o Join(", ", method.decorators) \o ")" ELSE "") \o "\n"

ModelChunk(module_name, model) ==
    [content |->
        "Model: " \o PyFormat(PyOr(model._name, PyStr(model.name))) \o "\n" \o
        "Class: " \o model.name \o "\n" \o
        (IF Truthy(model._description)
         THEN "Description: " \o PyFormat(model._description) \o "\n" ELSE "") \o
        (IF Truthy(model._inherit)
         THEN "Inherits: " \o PyFormat(model._inherit) \o "\n" ELSE "") \o
        (IF Len(model.fields) > 0
         THEN "Fields:\n" \o Join("", [i \in 1..Len(model.fields) |-> FieldLine(model.fields[i])])
         ELSE "") \o
        (IF Len(model.methods) > 0
         THEN "Methods:\n" \o Join("", [i \in 1..Len(model.methods) |-> MethodLine(model.methods[i])])
         ELSE ""),
     metadata |-> [module |-> PyStr(module_name),
                   type |-> PyStr("model"),
                   model_name |-> PyOr(model._name, PyStr(model.name)),
                   path |-> PyStr(model.file_path),
                   line_start |-> PyInt(model.line_start),
                   line_end |-> PyInt(model.line_end)]]

ViewChunk(module_name, view) ==
    [content |->
        "View: " \o PyFormat(view["name"]) \o "\n" \o
        "Model: " \o PyFormat(view["model"]) \o "\n" \o
        "Type: " \o PyFormat(view["type"]) \o "\n" \o
        (IF Truthy(view["inherit_id"])
         THEN "Inherits view: " \o PyFormat(view["inherit_id"]) \o "\n" ELSE "") \o
        (IF Truthy(view["arch"])
         THEN "Architecture:\n" \o PyFormat(view["arch"]) ELSE ""),
     metadata |-> [module |-> PyStr(module_name),
                   type |-> PyStr("view"),
                   view_id |-> view["id"],
                   path |-> view["file_path"]]]

\* the same chunks, with no manifest chunk for an empty manifest dict
ModuleChunksSkipEmptyManifest(module_name, module_data) ==
    (IF Len(module_data.manifest) = 0 THEN <<>>
     ELSE <<ManifestChunk(module_name, module_data)>>) \o
    [i \in 1..Len(module_data.models) |-> ModelChunk(module_name, module_data.models[i])] \o
    [i \in 1..Len(module_data.views) |-> ViewChunk(module_name, module_data.views[i])]

\* the chunks of one entry of self.modules: the manifest, then the models,
\* then the views
ModuleChunks(module_name, module_data) ==
    <<ManifestChunk(module_name, module_data)>> \o
    [i \in 1..Len(module_data.models) |-> ModelChunk(module_name, module_data.models[i])] \o
    [i \in 1..Len(module_data.views) |-> ViewChunk(module_name, module_data.views[i])]

extract_chunks_for_embedding(mods) ==
    Flatten([i \in 1..Len(mods) |-> ModuleChunks(mods[i][1], mods[i][2])])

-----------------------------------------------------------------------------
(* vectorstore.py: OdooVectorStore over the external collection *)

\* ids numbered within the batch only
ChunkIdInBatch(count, i) == "chunk_" \o ToString(i)

\* the ids add_chunks computes for a batch of n chunks: the collection is
\* not changed inside the loop, so count() is the size before the batch
ChunkId(count, i) == "chunk_" \o ToString(count + i)

NewDocs(st, batch) ==
    [i \in 1..Len(batch) |->
        [id |-> ChunkId(Len(st), i - 1),
         content |-> batch[i].content,
         metadata |-> batch[i].metadata]]

\* exact-equality filter, conjunctive across keys
Matches(metadata, where) ==
    \/ where = PyNone
    \/ \A key \in DOMAIN where :
            key \in DOMAIN metadata /\ metadata[key] = where[key]

\* collection.query: the matching documents nearest first, at most
\* n_results of them.  The distances are the embedding's; the model lets
\* the nearest-first order be the stored order or its reverse.
Ranks == {"stored", "reversed"}

CollectionQuery(st, where, n_results, rank) ==
    LET hits == SelectSeq(st, LAMBDA d : Matches(d.metadata, where))
        ordered == IF rank = "stored" THEN hits ELSE Reverse(hits)
        n == IF Len(ordered) < n_results THEN Len(ordered) ELSE n_results
    IN [i \in 1..n |->
            [content |-> ordered[i].content, metadata |-> ordered[i].metadata,
             id |-> ordered[i].id, distance |-> i]]

\* An operation in progress is [calls, raised, value]: the external calls
\* issued so far, whether one of them raised, and the value computed.
\* failAt numbers the external call that raises (0: none does).
\* Each call is logged with its arguments, whether it raised and its reply.
QueryCall(query, where, n_results, raised, reply) ==
    [svc |-> "collection.query", query_texts |-> <<query>>,
     n_results |-> n_results, where |-> where, raised |-> raised, reply |-> reply]

\* the dict collection.query returns for one query text: per key a list
\* holding one list, the hits' values in order
QueryResult(hits) ==
    [documents |-> << [i \in 1..Len(hits) |-> hits[i].content] >>,
     metadatas |-> << [i \in 1..Len(hits) |-> hits[i].metadata] >>,
     ids |-> << [i \in 1..Len(hits) |-> hits[i].id] >>,
     distances |-> << [i \in 1..Len(hits) |-> hits[i].distance] >>]

\* the result loop of search, taking an empty result for an error
ProcessResultsRaiseOnEmpty(results) ==
    IF Len(results.documents[1]) > 0
    THEN Returned([i \in 1..Len(results.documents[1]) |->
            [content |-> results.documents[1][i],
             metadata |-> results.metadatas[1][i],
             id |-> results.ids[1][i],
             distance |-> results.distances[1][i]]])
    ELSE Raised

\* the result loop of search: docs, one dict per hit
ProcessResults(results) ==
    IF Len(results.documents[1]) > 0
    THEN Returned([i \in 1..Len(results.documents[1]) |->
            [content |-> results.documents[1][i],
             metadata |-> results.metadatas[1][i],
             id |-> results.ids[1][i],
             distance |-> results.distances[1][i]]])
    ELSE Returned(<<>>)

search(st, calls, failAt, rank, query, filter, k) ==
    LET where_clause == filter
        hits == CollectionQuery(st, where_clause, k, rank)
        docs == ProcessResults(QueryResult(hits))
    IN IF Len(calls) + 1 = failAt
       THEN [calls |-> Append(calls, QueryCall(query, where_clause, k, TRUE, <<>>)),
             raised |-> TRUE, value |-> <<>>]
       ELSE [calls |-> Append(calls, QueryCall(query, where_clause, k, FALSE, hits)),
             raised |-> docs.raised, value |-> docs.value]

\* the same search with the view pass asking for k documents again
SearchByModelFullK(st, calls, failAt, rank, query, model_name, k) ==
    LET exact_matches == search(st, calls, failAt, rank, query,
                                [model_name |-> model_name], k)
    IN IF exact_matches.raised THEN exact_matches
       ELSE IF Len(exact_matches.value) < k THEN
            LET view_matches == search(st, exact_matches.calls, failAt, rank, query,
                                       [type |-> PyStr("view"), model |-> model_name], k)
            IN IF view_matches.raised THEN view_matches
               ELSE [view_matches EXCEPT !.value = exact_matches.value \o @]
       ELSE exact_matches

search_by_model(st, calls, failAt, rank, query, model_name, k) ==
    LET exact_matches == search(st, calls, failAt, rank, query,
                                [model_name |-> model_name], k)
    IN IF exact_matches.raised THEN exact_matches
       ELSE IF Len(exact_matches.value) < k THEN
            LET view_matches == search(st, exact_matches.calls, failAt, rank, query,
                                       [type |-> PyStr("view"), model |-> model_name],
                                       k - Len(exact_matches.value))
            IN IF view_matches.raised THEN view_matches
               ELSE [view_matches EXCEPT !.value = exact_matches.value \o @]
       ELSE exact_matches

-----------------------------------------------------------------------------
(* rag.py: OdooRAG *)

\* metadata.get(key, default), formatted into an f-string
MetaGet(metadata, key, default) ==
    IF key \in DOMAIN metadata THEN PyFormat(metadata[key]) ELSE default

NoDocuments == "No relevant documents found."

ContextPart(i, doc) ==
    "[Document " \o ToString(i) \o "] Module: " \o MetaGet(doc.metadata, "module", "unknown")
        \o ", Path: " \o MetaGet(doc.metadata, "file_path", "unknown")
        \o ", Type: " \o MetaGet(doc.metadata, "type", "unknown")
        \o "\n" \o doc.content \o "\n"

\* the same formatting without the early return for an empty list
FormatContextNoSentinel(documents) ==
    Join("\n", [i \in 1..Len(documents) |-> ContextPart(i, documents[i])])

_format_context(documents) ==
    IF Len(documents) = 0 THEN NoDocuments
    ELSE Join("\n", [i \in 1..Len(documents) |-> ContextPart(i, documents[i])])

\* the list without its two keywords that occur in 'workflow diagram'
DiagramKeywordsNoFlowDiagram ==
    <<"sequence diagram", "process diagram", "mermaid",
      "business flow", "business process", "sequence flow">>

diagram_keywords == <<"sequence diagram", "process diagram", "flow diagram", "mermaid",
                      "business flow", "business process", "sequence flow",
                      "workflow diagram">>
module_list_keywords == <<"list modules", "list all modules", "show modules",
                          "available modules", "what modules">>
model_keywords == <<"model", "field", "orm", "inheritance", "method", "record", "database">>
view_keywords == <<"view", "form", "tree", "kanban", "xml", "qweb", "ui", "button", "action">>

\* any(keyword in text for keyword in keywords)
AnyKeyword(text, keywords) == \E i \in 1..Len(keywords) : Contains(text, keywords[i])

\* the same scan with the model-domain check made before the diagram check
SelectPromptModelFirst(question) ==
    LET question_lower == Lower(question) IN
    IF AnyKeyword(question_lower, model_keywords) THEN "model_template"
    ELSE IF AnyKeyword(question_lower, diagram_keywords) THEN "sequence_diagram_template"
    ELSE IF AnyKeyword(question_lower, module_list_keywords) THEN "module_list_template"
    ELSE IF AnyKeyword(question_lower, view_keywords) THEN "view_template"
    ELSE "default_template"

_select_prompt_for_question(question) ==
    LET question_lower == Lower(question) IN
    IF AnyKeyword(question_lower, diagram_keywords) THEN "sequence_diagram_template"
    ELSE IF AnyKeyword(question_lower, module_list_keywords) THEN "module_list_template"
    ELSE IF AnyKeyword(question_lower, model_keywords) THEN "model_template"
    ELSE IF AnyKeyword(question_lower, view_keywords) THEN "view_template"
    ELSE "default_template"

\* prompt_template.format(context_str=..., query_str=...): the template with
\* its two placeholders filled
FormatPrompt(template, context_str, query_str) ==
    [template |-> template, context_str |-> context_str, query_str |-> query_str]

\* the same request with the temperature left at the default
CreateCallDefaultTemperature(config, max_tokens, prompt, raised) ==
    [svc |-> "messages.create", model |-> config.model_name, max_tokens |-> max_tokens,
     temperature |-> "0.0",
     messages |-> << [role |-> "user", content |-> prompt] >>,
     raised |-> raised, reply |-> <<>>]

CreateCall(config, max_tokens, prompt, raised) ==
    [svc |-> "messages.create", model |-> config.model_name, max_tokens |-> max_tokens,
     temperature |-> config.temperature,
     messages |-> << [role |-> "user", content |-> prompt] >>,
     raised |-> raised, reply |-> <<>>]

\* max_tokens of the answer operations and of generate_sequence_diagram
OrdinaryMaxTokens == 1000
DiagramMaxTokens == 2000

\* message.content[0].text of the reply
Completion == "completion"

\* the tail every answer operation shares: one messages.create call, then
\* the result dict built from its reply and the retrieved documents
Generate(config, retrieved, failAt, max_tokens, prompt) ==
    IF Len(retrieved.calls) + 1 = failAt
    THEN [calls |-> Append(retrieved.calls, CreateCall(config, max_tokens, prompt, TRUE)),
          raised |-> TRUE, value |-> <<>>]
    ELSE [calls |-> Append(retrieved.calls, CreateCall(config, max_tokens, prompt, FALSE)),
          raised |-> FALSE,
          value |-> [result |-> Completion, source_documents |-> retrieved.value]]

answer_question(config, st, failAt, rank, question, filter) ==
    LET docs == search(st, <<>>, failAt, rank, question, filter, 5)
    IN IF docs.raised THEN docs
       ELSE LET context_str == _format_context(docs.value)
                prompt_template == _select_prompt_for_question(question)
                prompt == FormatPrompt(prompt_template, context_str, question)
            IN Generate(config, docs, failAt, OrdinaryMaxTokens, prompt)

answer_about_module(config, st, failAt, rank, question, module_name) ==
    answer_question(config, st, failAt, rank, question, [module |-> module_name])

answer_about_model(config, st, failAt, rank, question, model_name) ==
    LET docs == search_by_model(st, <<>>, failAt, rank, question, model_name, 5)
    IN IF docs.raised THEN docs
       ELSE LET context_str == _format_context(docs.value)
                prompt == FormatPrompt("model_template", context_str, question)
            IN Generate(config, docs, failAt, OrdinaryMaxTokens, prompt)

list_all_modules(config, st, failAt, rank) ==
    LET docs == search(st, <<>>, failAt, rank, "manifest module information",
                       [type |-> PyStr("manifest")], 100)
    IN IF docs.raised THEN docs
       ELSE LET context_str == _format_context(docs.value)
                prompt == FormatPrompt("module_list_template", context_str,
                                       "List all available modules with their descriptions")
            IN Generate(config, docs, failAt, OrdinaryMaxTokens, prompt)

generate_sequence_diagram(config, st, failAt, rank, process_name, module_name) ==
    LET query == "business process " \o process_name \o " workflow sequence"
        filter_dict == IF Truthy(module_name) THEN [module |-> module_name] ELSE PyNone
        docs == search(st, <<>>, failAt, rank, query, filter_dict, 10)
    IN IF docs.raised THEN docs
       ELSE LET context_str == _format_context(docs.value)
                prompt == FormatPrompt("sequence_diagram_template", context_str,
                            "Create a sequence diagram for the " \o process_name \o " process"
                            \o (IF Truthy(module_name)
                                THEN " in the " \o PyFormat(module_name) \o " module" ELSE ""))
            IN Generate(config, docs, failAt, DiagramMaxTokens, prompt)

-----------------------------------------------------------------------------
(* Inputs *)

\* the directory trees the indexer is run on
FsChoices ==
    { [p \in PackageNames |-> IF p = "sale_ext" THEN TreeSale ELSE TreePartner],
      [p \in PackageNames |-> IF p = "sale_ext" THEN TreeBroken ELSE TreePlain],
      [p \in PackageNames |-> IF p = "sale_ext" THEN TreeBinary ELSE TreeSale] }

\* OdooRAG(vector_store, model_name, temperature)
Configs ==
    { [model_name |-> "claude-3-5-haiku-20241022", temperature |-> "0.0"],
      [model_name |-> "claude-3-sonnet-20240229", temperature |-> "0.7"] }

\* chunks handed to add_chunks by a caller other than the indexer: one
\* model chunk and two view chunks that name their target model
SeedChunks ==
    << [content |-> "Model: res.partner",
        metadata |-> [module |-> PyStr("base"), type |-> PyStr("model"),
                      model_name |-> PyStr("res.partner"),
                      file_path |-> PyStr("base/models/res_partner.py")]],
       [content |-> "View: partner.form",
        metadata |-> [module |-> PyStr("base"), type |-> PyStr("view"),
                      model |-> PyStr("res.partner"),
                      file_path |-> PyStr("base/views/partner.xml")]],
       [content |-> "View: partner.tree",
        metadata |-> [type |-> PyStr("view"), model |-> PyStr("res.partner")]] >>

Questions ==
    { "Show a Sequence Diagram of the sale model",
      "What modules use the ORM?",
      "What fields does res.partner have?",
      "How is the kanban button defined?",
      "Explain the sale workflow",
      "Draw the sale workflow diagram",
      "" }

ProcessNames == {"order checkout"}
ModuleNames == {"sale_ext", "base"}
ModelNames == {"sale.order.ext", "res.partner"}
\* no filter, a package that has chunks, a package that has none
SearchFilters == {PyNone, [module |-> PyStr("sale_ext")], [module |-> PyStr("website_ext")]}
SearchSizes == {1, 2, 5}
\* which external call of the operation raises (0: none)
FailPoints == 0..3

-----------------------------------------------------------------------------
(* The state machine *)

Op(name, args, outcome) ==
    [name |-> name, args |-> args, calls |-> outcome.calls,
     raised |-> outcome.raised, value |-> outcome.value]

NoCalls(r) == [calls |-> <<>>, raised |-> r.raised, value |-> r.value]

\* no call is in progress: the single-threaded caller is between two calls
NoOp == Op("none", <<>>, NoCalls(Returned(<<>>)))

\* no interactive session is running
NoSession == [active |-> FALSE, config |-> PyNone, current_filter |-> PyNone]

Init ==
    /\ fs \in FsChoices
    /\ modules = <<>>
    /\ chunks = <<>>
    /\ store = <<>>
    /\ op = NoOp
    /\ session = NoSession

\* parser.index_module(module_name)
IndexModule(module_name) ==
    LET data == IndexModuleData(module_name, fs[module_name]) IN
    /\ op = NoOp
    /\ modules' = IF data.raised THEN modules
                  ELSE DictSet(modules, module_name, data.value)
    /\ op' = Op("index_module", <<module_name>>, NoCalls(data))
    /\ UNCHANGED <<fs, chunks, store, session>>

\* the package map after index_module on each name of order in turn; the
\* first call that raises ends the pass
RECURSIVE IndexEach(_, _, _)
IndexEach(tree, mods, order) ==
    IF Len(order) = 0 THEN Returned(mods)
    ELSE LET data == IndexModuleData(Head(order), tree[Head(order)])
         IN IF data.raised THEN [raised |-> TRUE, value |-> mods]
            ELSE IndexEach(tree, DictSet(mods, Head(order), data.value), Tail(order))

discover_modules(tree) == {p \in PackageNames : IsPackage(tree[p])}

\* the orders os.listdir may give the discovered packages in
Listings(names) ==
    {order \in [1..Cardinality(names) -> names] :
        \A i, j \in 1..Cardinality(names) : i # j => order[i] # order[j]}

\* parser.index_all_modules()
IndexAllModules ==
    /\ op = NoOp
    /\ \E order \in Listings(discover_modules(fs)) :
        LET pass == IndexEach(fs, modules, order) IN
        /\ modules' = pass.value
        /\ op' = Op("index_all_modules", order,
                    NoCalls(IF pass.raised THEN Raised ELSE pass))
        /\ UNCHANGED <<fs, chunks, store, session>>

\* chunks = parser.extract_chunks_for_embedding()
ExtractChunks ==
    /\ op = NoOp
    /\ chunks' = extract_chunks_for_embedding(modules)
    /\ op' = Op("extract_chunks_for_embedding", <<>>, NoCalls(Returned(chunks')))
    /\ UNCHANGED <<fs, modules, store, session>>

AddCall(docs, raised) ==
    [svc |-> "collection.add", raised |-> raised, reply |-> <<>>,
     ids |-> [i \in 1..Len(docs) |-> docs[i].id],
     documents |-> [i \in 1..Len(docs) |-> docs[i].content],
     metadatas |-> [i \in 1..Len(docs) |-> docs[i].metadata]]

\* the outcome of add_chunks(batch): nothing is submitted for an empty
\* batch; otherwise one collection.add, which the index may reject
add_chunks(st, batch, failAt) ==
    IF Len(batch) = 0 THEN [calls |-> <<>>, raised |-> FALSE, value |-> st]
    ELSE LET docs == NewDocs(st, batch)
         IN IF failAt = 1
            THEN [calls |-> <<AddCall(docs, TRUE)>>, raised |-> TRUE, value |-> st]
            ELSE [calls |-> <<AddCall(docs, FALSE)>>, raised |-> FALSE, value |-> st \o docs]

\* vector_store.add_chunks(batch)
AddChunks(batch) ==
    /\ op = NoOp
    /\ Len(store) + Len(batch) <= MaxStore
    /\ \E failAt \in {0, 1} :
        LET outcome == add_chunks(store, batch, failAt) IN
        /\ store' = outcome.value
        /\ op' = Op("add_chunks", <<batch>>, [outcome EXCEPT !.value = <<>>])
    /\ UNCHANGED <<fs, modules, chunks, session>>

\* vector_store.search(query, filter, k)
Search(query, filter, k) ==
    /\ op = NoOp
    /\ \E failAt \in {0, 1}, rank \in Ranks :
        op' = Op("search", <<query, filter, k>>,
                 search(store, <<>>, failAt, rank, query, filter, k))
    /\ UNCHANGED <<fs, modules, chunks, store, session>>

\* vector_store.search_by_model(query, model_name, k)
SearchByModel(query, model_name, k) ==
    /\ op = NoOp
    /\ \E failAt \in FailPoints, rank \in Ranks :
        op' = Op("search_by_model", <<query, model_name, k>>,
                 search_by_model(store, <<>>, failAt, rank, query, PyStr(model_name), k))
    /\ UNCHANGED <<fs, modules, chunks, store, session>>

\* rag.answer_question(question)
AnswerQuestion(config, question) ==
    /\ op = NoOp
    /\ \E failAt \in FailPoints, rank \in Ranks :
        op' = Op("answer_question", <<config, question>>,
                 answer_question(config, store, failAt, rank, question, PyNone))
    /\ UNCHANGED <<fs, modules, chunks, store, session>>

\* rag.answer_about_module(question, module_name)
AnswerAboutModule(config, question, module_name) ==
    /\ op = NoOp
    /\ \E failAt \in FailPoints, rank \in Ranks :
        op' = Op("answer_about_module", <<config, question, module_name>>,
                 answer_about_module(config, store, failAt, rank, question, PyStr(module_name)))
    /\ UNCHANGED <<fs, modules, chunks, store, session>>

\* rag.answer_about_model(question, model_name)
AnswerAboutModel(config, question, model_name) ==
    /\ op = NoOp
    /\ \E failAt \in FailPoints, rank \in Ranks :
        op' = Op("answer_about_model", <<config, question, model_name>>,
                 answer_about_model(config, store, failAt, rank, question, PyStr(model_name)))
    /\ UNCHANGED <<fs, modules, chunks, store, session>>

\* rag.list_all_modules()
ListAllModules(config) ==
    /\ op = NoOp
    /\ \E failAt \in FailPoints, rank \in Ranks :
        op' = Op("list_all_modules", <<config>>,
                 list_all_modules(config, store, failAt, rank))
    /\ UNCHANGED <<fs, modules, chunks, store, session>>

\* rag.generate_sequence_diagram(process_name, module_name)
GenerateSequenceDiagram(config, process_name, module_name) ==
    /\ op = NoOp
    /\ \E failAt \in FailPoints, rank \in Ranks :
        op' = Op("generate_sequence_diagram", <<config, process_name, module_name>>,
                 generate_sequence_diagram(config, store, failAt, rank, process_name, module_name))
    /\ UNCHANGED <<fs, modules, chunks, store, session>>

\* the caller has taken the outcome of its call and may issue the next one
Resume ==
    /\ op # NoOp
    /\ op' = NoOp
    /\ UNCHANGED <<fs, modules, chunks, store, session>>

Next ==
    \/ \E m \in PackageNames : IndexModule(m)
    \/ IndexAllModules
    \/ ExtractChunks
    \/ \E batch \in {chunks, SeedChunks} : AddChunks(batch)
    \/ \E f \in SearchFilters, k \in SearchSizes : Search("partner form", f, k)
    \/ \E m \in ModelNames, k \in SearchSizes : SearchByModel("partner form", m, k)
    \/ \E c \in Configs, q \in Questions : AnswerQuestion(c, q)
    \/ \E c \in Configs, q \in Questions, m \in ModuleNames : AnswerAboutModule(c, q, m)
    \/ \E c \in Configs, q \in Questions, m \in ModelNames : AnswerAboutModel(c, q, m)
    \/ \E c \in Configs : ListAllModules(c)
    \/ \E c \in Configs, p \in ProcessNames, m \in {PyNone} \cup {PyStr(n) : n \in ModuleNames} :
            GenerateSequenceDiagram(c, p, m)
    \/ Resume

Spec == Init /\ [][Next]_vars

-----------------------------------------------------------------------------
(* The indexer on a directory that changes between calls *)

Trees == {TreeSale, TreePartner, TreeBroken, TreeBinary, TreePlain}

\* a package directory is rewritten on disk while no call is in progress;
\* index_module reads the directory afresh on every call
EditTree(module_name, tree) ==
    /\ op = NoOp
    /\ fs[module_name] # tree
    /\ fs' = [fs EXCEPT ![module_name] = tree]
    /\ UNCHANGED <<modules, chunks, store, op, session>>

NextIndexer ==
    \/ \E m \in PackageNames : IndexModule(m)
    \/ IndexAllModules
    \/ \E m \in PackageNames, tree \in Trees : EditTree(m, tree)
    \/ Resume

SpecIndexer == Init /\ [][NextIndexer]_vars

-----------------------------------------------------------------------------
(* The command line (cli.py).  Each subcommand is one process run: its     *)
(* arguments and the environment variable are inputs of the run.           *)

\* --persist-dir: its default, where the store of this model lives, and a
\* directory nobody created
PersistDir == "chroma_db"
PersistDirs == {PersistDir, "no_such_dir"}

\* os.path.exists(path)
PathExists(path) == path = PersistDir

\* os.getenv("ANTHROPIC_API_KEY"): unset, set to the empty string, set
ApiKeys == {PyNone, PyStr(""), PyStr("sk-ant-api-key")}

StoreNotFound(persist_dir) ==
    "Vector store not found at " \o persist_dir \o ". Please index modules first."
KeyNotSet ==
    "ANTHROPIC_API_KEY environment variable not set. Please set it in your .env file."

\* the same checks with the credential check left out
MissingPreconditionDirOnly(persist_dir, api_key) ==
    IF ~PathExists(persist_dir) THEN PyStr(StoreNotFound(persist_dir)) ELSE PyNone

\* the two checks at the head of query_rag, generate_diagram and
\* start_interactive_session: the error logged, or None when both pass
MissingPrecondition(persist_dir, api_key) ==
    IF ~PathExists(persist_dir) THEN PyStr(StoreNotFound(persist_dir))
    ELSE IF ~Truthy(api_key) THEN PyStr(KeyNotSet)
    ELSE PyNone

\* a subcommand that stopped at a failed check: nothing called, the error
\* logged, a normal return
Refused(error) == [calls |-> <<>>, raised |-> FALSE, value |-> [error |-> error]]

\* OdooVectorStore(persist_directory=persist_dir): the directory is made if
\* missing and the collection opened or created
OpenStore(persist_dir) ==
    [svc |-> "chromadb.PersistentClient", path |-> persist_dir,
     raised |-> FALSE, reply |-> <<>>]

\* vector_store.get_stats()
CountCall(st) == [svc |-> "collection.count", raised |-> FALSE, reply |-> Len(st)]

\* a subcommand that went on to open the store and run the operation whose
\* outcome is given
Ran(persist_dir, outcome) ==
    [calls |-> <<OpenStore(persist_dir)>> \o outcome.calls,
     raised |-> outcome.raised,
     value |-> [error |-> PyNone]]

query_rag(persist_dir, api_key, config, st, failAt, rank, question, module, model) ==
    LET error == MissingPrecondition(persist_dir, api_key)
    IN IF error # PyNone THEN Refused(error)
       ELSE Ran(persist_dir,
                IF Truthy(module)
                THEN answer_about_module(config, st, failAt, rank, question, module)
                ELSE IF Truthy(model)
                THEN answer_about_model(config, st, failAt, rank, question, model)
                ELSE answer_question(config, st, failAt, rank, question, PyNone))

generate_diagram(persist_dir, api_key, config, st, failAt, rank, process, module) ==
    LET error == MissingPrecondition(persist_dir, api_key)
    IN IF error # PyNone THEN Refused(error)
       ELSE Ran(persist_dir,
                generate_sequence_diagram(config, st, failAt, rank, process, module))

\* the part of start_interactive_session before its loop
start_interactive_session(persist_dir, api_key, st) ==
    LET error == MissingPrecondition(persist_dir, api_key)
    IN IF error # PyNone THEN Refused(error)
       ELSE [calls |-> <<OpenStore(persist_dir), CountCall(st)>>,
             raised |-> FALSE, value |-> [error |-> PyNone]]

\* input() ended by end of file or an interrupt instead of returning a line
EndOfInput == [t |-> "eof", v |-> ""]

\* current_filter.get(key)
FilterGet(current_filter, key) ==
    IF key \in DOMAIN current_filter THEN current_filter[key] ELSE PyNone

\* how one pass of the loop ends: the calls it issued, whether an exception
\* left the loop, the filter afterwards, and whether the loop goes on
LoopPass(outcome, current_filter, active) ==
    [calls |-> outcome.calls, raised |-> outcome.raised, value |-> [error |-> PyNone],
     current_filter |-> current_filter, active |-> active /\ ~outcome.raised]

Nothing == [calls |-> <<>>, raised |-> FALSE]

\* one pass of the while loop of start_interactive_session on the line
\* read by input()
interactive_loop(config, current_filter, st, failAt, rank, line) ==
    IF line = EndOfInput THEN LoopPass(Nothing, current_filter, FALSE)
    ELSE
    LET question == Strip(line.v)
        parts == Split(question)
        command == IF StartsWith(question, "/") THEN Lower(parts[1]) ELSE ""
    IN  IF Lower(question) \in {"exit", "quit"}
        THEN LoopPass(Nothing, current_filter, FALSE)
        ELSE IF command = "/clear"
        THEN LoopPass(Nothing, PyNone, TRUE)
        ELSE IF command = "/module" /\ Len(parts) > 1
        THEN LoopPass(Nothing, [module |-> PyStr(parts[2])], TRUE)
        ELSE IF command = "/model" /\ Len(parts) > 1
        THEN LoopPass(Nothing, [model_name |-> PyStr(parts[2])], TRUE)
        ELSE IF command = "/modules"
        THEN LoopPass(list_all_modules(config, st, failAt, rank), current_filter, TRUE)
        ELSE IF command = "/diagram" /\ Len(parts) > 1
        THEN LoopPass(generate_sequence_diagram(config, st, failAt, rank,
                        Join(" ", Tail(parts)),
                        IF current_filter # PyNone
                        THEN FilterGet(current_filter, "module") ELSE PyNone),
                      current_filter, TRUE)
        ELSE IF current_filter # PyNone
        THEN LoopPass(answer_about_module(config, st, failAt, rank, question,
                        FilterGet(current_filter, "module")),
                      current_filter, TRUE)
        ELSE LoopPass(answer_question(config, st, failAt, rank, question, PyNone),
                      current_filter, TRUE)

\* the index subcommand: a fresh parser indexes the addons directory and
\* the chunks go to the store; an exception of the parser ends the run
\* before the store is opened
index_modules(tree, st, order, failAt) ==
    LET pass == IndexEach(tree, <<>>, order)
        extracted == extract_chunks_for_embedding(pass.value)
        added == add_chunks(st, extracted, failAt)
    IN IF pass.raised
       THEN [calls |-> <<>>, raised |-> TRUE, store |-> st,
             modules |-> pass.value, chunks |-> <<>>]
       ELSE [calls |-> <<OpenStore(PersistDir)>> \o added.calls, raised |-> added.raised,
             store |-> added.value, modules |-> pass.value, chunks |-> extracted]

\* the inputs of the runs
CliQuestions == {"What fields does res.partner have?", "Explain the sale workflow"}
CliModules == {PyNone, PyStr("sale_ext")}
CliModels == {PyNone, PyStr("res.partner")}
Lines ==
    {PyStr(text) : text \in
        { "", "   ", "exit", " QUIT ", "/clear", "/module sale_ext", "/module",
          "/model res.partner", "/MODULES", "/diagram order checkout", "/diagram",
          "/help", "What fields does res.partner have?" }}
    \cup {EndOfInput}

\* python cli.py index
IndexModulesCmd ==
    /\ op = NoOp
    /\ ~session.active
    /\ \E order \in Listings(discover_modules(fs)), failAt \in {0, 1} :
        LET run == index_modules(fs, store, order, failAt) IN
        /\ Len(run.store) <= MaxStore
        /\ store' = run.store
        /\ modules' = run.modules
        /\ chunks' = run.chunks
        /\ op' = Op("index_modules", <<PersistDir>>,
                    [calls |-> run.calls, raised |-> run.raised, value |-> [error |-> PyNone]])
    /\ UNCHANGED <<fs, session>>

\* python cli.py query
QueryRag(persist_dir, api_key, config, question, module, model) ==
    /\ op = NoOp
    /\ ~session.active
    /\ \E failAt \in FailPoints, rank \in Ranks :
        op' = Op("query_rag", <<persist_dir, api_key, config, question, module, model>>,
                 query_rag(persist_dir, api_key, config, store, failAt, rank,
                           question, module, model))
    /\ UNCHANGED <<fs, modules, chunks, store, session>>

\* python cli.py diagram
GenerateDiagram(persist_dir, api_key, config, process, module) ==
    /\ op = NoOp
    /\ ~session.active
    /\ \E failAt \in FailPoints, rank \in Ranks :
        op' = Op("generate_diagram", <<persist_dir, api_key, config, process, module>>,
                 generate_diagram(persist_dir, api_key, config, store, failAt, rank,
                                  process, module))
    /\ UNCHANGED <<fs, modules, chunks, store, session>>

\* python cli.py interactive, up to the first prompt
StartInteractiveSession(persist_dir, api_key, config) ==
    /\ op = NoOp
    /\ ~session.active
    /\ LET start == start_interactive_session(persist_dir, api_key, store) IN
        /\ op' = Op("start_interactive_session", <<persist_dir, api_key, config>>, start)
        /\ session' = IF start.value.error # PyNone THEN session
                      ELSE [active |-> TRUE, config |-> config, current_filter |-> PyNone]
    /\ UNCHANGED <<fs, modules, chunks, store>>

\* one line typed at the prompt of the running session
InteractiveLoop(line) ==
    /\ op = NoOp
    /\ session.active
    /\ \E failAt \in FailPoints, rank \in Ranks :
        LET pass == interactive_loop(session.config, session.current_filter, store,
                                     failAt, rank, line) IN
        /\ op' = Op("interactive_loop", <<session.current_filter, line>>, pass)
        /\ session' = IF pass.active
                      THEN [session EXCEPT !.current_filter = pass.current_filter]
                      ELSE NoSession
    /\ UNCHANGED <<fs, modules, chunks, store>>

NextCli ==
    \/ IndexModulesCmd
    \/ \E d \in PersistDirs, key \in ApiKeys, c \in Configs, q \in CliQuestions,
          m \in CliModules, n \in CliModels : QueryRag(d, key, c, q, m, n)
    \/ \E d \in PersistDirs, key \in ApiKeys, c \in Configs, p \in ProcessNames,
          m \in CliModules : GenerateDiagram(d, key, c, p, m)
    \/ \E d \in PersistDirs, key \in ApiKeys, c \in Configs :
          StartInteractiveSession(d, key, c)
    \/ \E line \in Lines : InteractiveLoop(line)
    \/ Resume

SpecCli == Init /\ [][NextCli]_vars

-----------------------------------------------------------------------------
(* Properties *)

AnswerOps == {"answer_question", "answer_about_module", "answer_about_model",
              "list_all_modules", "generate_sequence_diagram"}

\* the generation and retrieval calls of the operation in op
GenerationCalls == SelectSeq(op.calls, LAMBDA c : c.svc = "messages.create")
RetrievalCalls == SelectSeq(op.calls, LAMBDA c : c.svc = "collection.query")
PromptOf(call) == call.messages[1].content

HasKeyword(question, keywords) ==
    \E i \in 1..Len(keywords) : Contains(Lower(question), keywords[i])

\* C1: in answer_question and answer_about_module the template of the
\* prompt follows the priority diagram > module list > model > view >
\* generic over the lower-cased question; a question with a diagram keyword
\* and a model keyword gets the diagram template.
C1_TemplatePriority ==
    (op.name \in {"answer_question", "answer_about_module"}) =>
        LET q == Lower(op.args[2])
            diagram == \E i \in 1..Len(diagram_keywords) : Contains(q, diagram_keywords[i])
            listing == \E i \in 1..Len(module_list_keywords) : Contains(q, module_list_keywords[i])
            model == \E i \in 1..Len(model_keywords) : Contains(q, model_keywords[i])
            view == \E i \in 1..Len(view_keywords) : Contains(q, view_keywords[i])
        IN \A i \in 1..Len(GenerationCalls) :
            LET t == PromptOf(GenerationCalls[i]).template
            IN /\ diagram => t = "sequence_diagram_template"
               /\ (~diagram /\ listing) => t = "module_list_template"
               /\ (~diagram /\ ~listing /\ model) => t = "model_template"
               /\ (~diagram /\ ~listing /\ ~model /\ view) => t = "view_template"
               /\ (~diagram /\ ~listing /\ ~model /\ ~view) => t = "default_template"

\* a question with both a diagram and a model keyword was answered with
\* the diagram template
C1_Witness ==
    /\ op.name = "answer_question"
    /\ ~op.raised
    /\ HasKeyword(op.args[2], diagram_keywords)
    /\ HasKeyword(op.args[2], model_keywords)
    /\ Len(GenerationCalls) = 1
    /\ PromptOf(GenerationCalls[1]).template = "sequence_diagram_template"

\* C2: an answer operation that returns a result issued exactly one
\* generation call, after all its retrieval calls, with the configured
\* temperature.
C2_OneGenerationCall ==
    (op.name \in AnswerOps /\ ~op.raised) =>
        /\ Len(GenerationCalls) = 1
        /\ Len(RetrievalCalls) >= 1
        /\ op.calls[Len(op.calls)].svc = "messages.create"
        /\ \A i \in 1..(Len(op.calls) - 1) :
                op.calls[i].svc = "collection.query" /\ ~op.calls[i].raised
        /\ GenerationCalls[1].temperature = op.args[1].temperature
        /\ GenerationCalls[1].model = op.args[1].model_name

\* answer_about_model returned after two retrieval calls and one
\* generation call at a non-default temperature
C2_Witness ==
    /\ op.name = "answer_about_model"
    /\ ~op.raised
    /\ Len(RetrievalCalls) = 2
    /\ Len(GenerationCalls) = 1
    /\ op.args[1].temperature = "0.7"
    /\ GenerationCalls[1].temperature = "0.7"

\* C3: every generation call built from the diagram template requests the
\* diagram ceiling and every other generation call the ordinary ceiling.
C3_CeilingByTemplate ==
    \A i \in 1..Len(GenerationCalls) :
        GenerationCalls[i].max_tokens =
            IF PromptOf(GenerationCalls[i]).template = "sequence_diagram_template"
            THEN DiagramMaxTokens ELSE OrdinaryMaxTokens


\* the documents the retrieval calls of the operation in op returned
RetrievedDocs == Flatten([i \in 1..Len(RetrievalCalls) |-> RetrievalCalls[i].reply])

\* C4: search_by_model(query, M, k) returns at most k documents: those of
\* the exact pass (model_name = M) first and in their order, then those of
\* the view pass, which is issued only when the exact pass gave fewer than
\* k documents and asks for k minus that number.
C4_SearchByModel ==
    (op.name = "search_by_model" /\ ~op.raised) =>
        LET M == PyStr(op.args[2])
            k == op.args[3]
            exact == op.calls[1]
        IN /\ Len(op.value) <= k
           /\ Len(op.calls) \in {1, 2}
           /\ exact.where = [model_name |-> M]
           /\ exact.n_results = k
           /\ \A i \in 1..Len(exact.reply) :
                /\ op.value[i] = exact.reply[i]
                /\ op.value[i].metadata["model_name"] = M
           /\ (Len(op.calls) = 2) <=> (Len(exact.reply) < k)
           /\ Len(op.calls) = 1 => op.value = exact.reply
           /\ Len(op.calls) = 2 =>
                /\ op.calls[2].where = [type |-> PyStr("view"), model |-> M]
                /\ op.calls[2].n_results = k - Len(exact.reply)
                /\ op.value = exact.reply \o op.calls[2].reply

\* both passes returned documents and the view pass was cut to the
\* remaining room
C4_Witness ==
    /\ op.name = "search_by_model"
    /\ ~op.raised
    /\ Len(op.calls) = 2
    /\ Len(op.calls[1].reply) > 0
    /\ Len(op.calls[2].reply) > 0
    /\ Len(op.value) = op.args[3]
    /\ Cardinality({i \in 1..Len(store) :
            Matches(store[i].metadata, op.calls[2].where)}) > Len(op.calls[2].reply)

\* the chunks the indexer can emit for the package trees
IndexerChunks ==
    UNION { LET data == IndexModuleData(p, tree[p])
            IN IF data.raised THEN {}
               ELSE LET cs == ModuleChunks(p, data.value) IN {cs[i] : i \in 1..Len(cs)}
            : p \in PackageNames, tree \in FsChoices }

FromIndexer(doc) == [content |-> doc.content, metadata |-> doc.metadata] \in IndexerChunks

\* a view chunk made from a view whose target model is M
ViewOn(doc, M) ==
    /\ doc.metadata["type"] = PyStr("view")
    /\ Contains(doc.content, "\nModel: " \o M \o "\n")

\* C5: on a store filled with the indexer's chunks, search_by_model adds
\* the view chunks of views on M to fewer than k exact matches, until k in
\* total or until they are exhausted.
C5_ViewSupplement ==
    (/\ op.name = "search_by_model"
     /\ ~op.raised
     /\ \A i \in 1..Len(store) : FromIndexer(store[i])) =>
        LET M == op.args[2]
            k == op.args[3]
            exactN == Cardinality({i \in 1..Len(store) :
                        /\ "model_name" \in DOMAIN store[i].metadata
                        /\ store[i].metadata["model_name"] = PyStr(M)})
            viewN == Cardinality({i \in 1..Len(store) : ViewOn(store[i], M)})
        IN exactN < k =>
            Len(op.value) = (IF exactN + viewN < k THEN exactN + viewN ELSE k)

\* C6: the context block of a retrieved indexer chunk is numbered by its
\* position in the retrieval order and shows the chunk's package, source
\* path and entity type.
C6_ContextShowsChunk ==
    (op.name \in AnswerOps /\ Len(GenerationCalls) = 1) =>
        \A i \in 1..Len(RetrievedDocs) :
            LET doc == RetrievedDocs[i] IN
            FromIndexer(doc) =>
                Contains(PromptOf(GenerationCalls[1]).context_str,
                    "[Document " \o ToString(i) \o "] Module: " \o doc.metadata["module"].v
                    \o ", Path: " \o doc.metadata["path"].v
                    \o ", Type: " \o doc.metadata["type"].v \o "\n" \o doc.content)

\* C7: the context of a generation prompt is never empty, and it is the
\* sentinel sentence when retrieval returned no documents.
C7_ContextNeverEmpty ==
    \A i \in 1..Len(GenerationCalls) :
        /\ PromptOf(GenerationCalls[i]).context_str # ""
        /\ Len(RetrievedDocs) = 0 =>
                PromptOf(GenerationCalls[i]).context_str = NoDocuments

\* an answer operation returned after retrieval found nothing
C7_Witness ==
    /\ op.name \in AnswerOps
    /\ ~op.raised
    /\ Len(op.value.source_documents) = 0
    /\ Len(GenerationCalls) = 1
    /\ PromptOf(GenerationCalls[1]).context_str = NoDocuments

\* C8: add_chunks submits nothing for an empty list and otherwise one
\* batch whose ids are chunk_<size before + i>; all ids in the store stay
\* pairwise distinct.
C8_DistinctIds ==
    [][(op.name = "none" /\ op'.name = "add_chunks") =>
        LET batch == op'.args[1]
            before == Len(store)
        IN /\ Len(batch) = 0 => (op'.calls = <<>> /\ store' = store)
           /\ Len(batch) > 0 =>
                /\ Len(op'.calls) = 1
                /\ op'.calls[1].ids =
                        [i \in 1..Len(batch) |-> "chunk_" \o ToString(before + i - 1)]
                /\ Len(op'.calls[1].documents) = Len(batch)
                /\ IF op'.raised THEN store' = store
                   ELSE Len(store') = before + Len(batch)
           /\ \A i, j \in 1..Len(store') :
                i # j => store'[i].id # store'[j].id]_vars

\* a second batch was added to a store that already held documents
C8_Witness ==
    /\ op.name = "add_chunks"
    /\ ~op.raised
    /\ Len(op.calls) = 1
    /\ Len(store) > Len(op.calls[1].ids)
    /\ store[Len(store)].id = op.calls[1].ids[Len(op.calls[1].ids)]

\* C9: extract_chunks_for_embedding emits exactly one manifest chunk for
\* every package of the package map, before the package's other chunks.
C9_OneManifestChunk ==
    (op.name = "extract_chunks_for_embedding") =>
        \A m \in 1..Len(modules) :
            LET own == {j \in 1..Len(chunks) : chunks[j].metadata["module"] = PyStr(modules[m][1])}
            IN /\ Cardinality({j \in own : chunks[j].metadata["type"] = PyStr("manifest")}) = 1
               /\ \A j \in own :
                    (\A h \in own : j <= h) => chunks[j].metadata["type"] = PyStr("manifest")

\* chunks were extracted for a package whose manifest did not parse
C9_Witness ==
    /\ op.name = "extract_chunks_for_embedding"
    /\ \E m \in 1..Len(modules) :
        /\ fs[modules[m][1]].manifest.exists
        /\ fs[modules[m][1]].manifest.literal = "SyntaxError"
        /\ modules[m][2].manifest = <<>>
        /\ \E j \in 1..Len(chunks) :
            /\ chunks[j].metadata["module"] = PyStr(modules[m][1])
            /\ chunks[j].metadata["type"] = PyStr("manifest")

\* the source paths of the records index_module collected for a package
RecordPaths(module_data) ==
    {module_data.models[i].file_path : i \in 1..Len(module_data.models)} \cup
    {module_data.views[i]["file_path"].v : i \in 1..Len(module_data.views)} \cup
    {module_data.scripts[i].path : i \in 1..Len(module_data.scripts)} \cup
    {module_data.data[i].path : i \in 1..Len(module_data.data)}

\* C10: every model, view, script and data record of a package has a chunk
\* tagged with the package and the record's source path.
C10_EveryRecordChunked ==
    (op.name = "extract_chunks_for_embedding") =>
        \A m \in 1..Len(modules) :
            \A path \in RecordPaths(modules[m][2]) :
                \E j \in 1..Len(chunks) :
                    /\ chunks[j].metadata["module"] = PyStr(modules[m][1])
                    /\ chunks[j].metadata["path"] = PyStr(path)

-----------------------------------------------------------------------------
(* Claims on the indexer's fault tolerance and coverage *)

\* chunk sizes a caller would configure; extract_chunks_for_embedding takes
\* no such parameter
ChunkSizes == {100}

\* C11: every chunk produced by extract_chunks_for_embedding has a text no
\* longer than the configured chunk size (a longer record being split).
C11_ChunkWithinSize ==
    (op.name = "extract_chunks_for_embedding") =>
        \A size \in ChunkSizes :
            \A j \in 1..Len(chunks) : Len(chunks[j].content) <= size

\* C12: a file that cannot be read or parsed never aborts indexing:
\* index_all_modules returns normally and the package map has an entry for
\* every discovered package.
C12_IndexingNeverAborts ==
    (op.name = "index_all_modules") =>
        /\ ~op.raised
        /\ discover_modules(fs) \subseteq DictKeys(modules)

\* the keys the fallback extraction of a manifest is to recover
FallbackKeys == {"name", "version", "depends"}

\* C13: when the manifest is not a literal, the entries name, version and
\* depends readable in its text are still in the package's manifest record.
C13_ManifestFallback ==
    (op.name = "index_module" /\ ~op.raised) =>
        LET man == fs[op.args[1]].manifest
        IN (man.exists /\ man.literal \in {"SyntaxError", "ValueError"}) =>
            \A i \in 1..Len(man.entries) :
                man.entries[i][1] \in FallbackKeys =>
                    \E h \in 1..Len(op.value.manifest) :
                        op.value.manifest[h] = man.entries[i]

\* a base that is one of the three ORM base names, bare or as the final
\* component of a dotted path
NamesOrmBase(base) ==
    \/ base.node = "Name" /\ base.id \in OrmBaseNames
    \/ base.node = "Attribute" /\ base.attrs[1] \in OrmBaseNames

\* C14: a class of a parsed model file yields a model record iff one of its
\* bases is an ORM base name, bare or at the end of a dotted path.
C14_ModelRecognition ==
    (op.name = "index_module" /\ ~op.raised) =>
        LET files == ModelFiles(fs[op.args[1]])
        IN \A i \in 1..Len(files) :
            (files[i].decodable /\ files[i].parses) =>
                \A c \in 1..Len(files[i].classes) :
                    LET cls == files[i].classes[c]
                    IN (\E b \in 1..Len(cls.bases) : NamesOrmBase(cls.bases[b]))
                       <=>
                       (\E r \in 1..Len(op.value.models) :
                            /\ op.value.models[r].name = cls.name
                            /\ op.value.models[r].file_path = FilePath(op.args[1], files[i]))

\* C15: python files are picked up anywhere in the package: a recognised
\* model class with the literal name N in any readable source file of an
\* indexed package gives a model chunk with model_name N, beside the
\* package's manifest chunk.
C15_SubtreeRouting ==
    (op.name = "extract_chunks_for_embedding") =>
        \A m \in 1..Len(modules) :
            LET pkg == modules[m][1]
                sources == GlobAll(fs[pkg], ".py")
                own == {j \in 1..Len(chunks) : chunks[j].metadata["module"] = PyStr(pkg)}
                current == IndexModuleData(pkg, fs[pkg])
            IN (~current.raised /\ current.value = modules[m][2]) =>
                \A i \in 1..Len(sources) :
                    (sources[i].decodable /\ sources[i].parses) =>
                        \A c \in 1..Len(sources[i].classes) :
                            LET cls == sources[i].classes[c]
                                info == _extract_model_info(cls, FilePath(pkg, sources[i]))
                            IN (_is_odoo_model(cls) /\ info._name.t = "str") =>
                                /\ \E j \in own : chunks[j].metadata["type"] = PyStr("manifest")
                                /\ \E j \in own :
                                    /\ chunks[j].metadata["type"] = PyStr("model")
                                    /\ chunks[j].metadata["model_name"] = info._name

-----------------------------------------------------------------------------
(* Claims on the "workflow" keyword *)

\* the question of the operation in op has a keyword of the module-list,
\* model or view category
OtherCategoryKeyword(q) ==
    \/ \E i \in 1..Len(module_list_keywords) : Contains(q, module_list_keywords[i])
    \/ \E i \in 1..Len(model_keywords) : Contains(q, model_keywords[i])
    \/ \E i \in 1..Len(view_keywords) : Contains(q, view_keywords[i])

\* C19 as stated: a question containing 'workflow' and no keyword of another
\* category is answered with the diagram template, not the generic one.
C19_WorkflowSelectsDiagram ==
    (op.name \in {"answer_question", "answer_about_module"}) =>
        LET q == Lower(op.args[2])
        IN (Contains(q, "workflow") /\ ~OtherCategoryKeyword(q)) =>
            \A i \in 1..Len(GenerationCalls) :
                PromptOf(GenerationCalls[i]).template = "sequence_diagram_template"

\* C19 amended: the diagram keyword is the phrase 'workflow diagram'.  A
\* question containing it is answered with the diagram template; a question
\* containing 'workflow' and no keyword of any category is answered with
\* the generic template.
C19_WorkflowDiagramSelectsDiagram ==
    (op.name \in {"answer_question", "answer_about_module"}) =>
        LET q == Lower(op.args[2])
        IN \A i \in 1..Len(GenerationCalls) :
            LET t == PromptOf(GenerationCalls[i]).template
            IN /\ Contains(q, "workflow diagram") => t = "sequence_diagram_template"
               /\ (/\ Contains(q, "workflow")
                   /\ ~AnyKeyword(q, diagram_keywords)
                   /\ ~OtherCategoryKeyword(q)) => t = "default_template"

\* a question whose only keyword is 'workflow diagram' was answered with the
\* diagram template
C19_Witness ==
    /\ op.name = "answer_question"
    /\ ~op.raised
    /\ Contains(Lower(op.args[2]), "workflow diagram")
    /\ ~OtherCategoryKeyword(Lower(op.args[2]))
    /\ Len(GenerationCalls) = 1
    /\ PromptOf(GenerationCalls[1]).template = "sequence_diagram_template"

-----------------------------------------------------------------------------
(* Claims on the package map *)

\* the packages of the first n names of order
Prefix(order, n) == {order[i] : i \in 1..n}

\* C16: the package map has one entry per package indexed so far, each the
\* result of the latest indexing of that package.  Step by step: keys stay
\* distinct; a returning index_module sets the entry of its package to the
\* data it returns, adds no other key and changes no other entry;
\* index_all_modules does so for every package it gets through, in listing
\* order; a call that raises sets no entry for the package it raised on;
\* no other step changes the map.
C16_PackageMap ==
    [][ /\ \A i, j \in 1..Len(modules') : modules'[i][1] = modules'[j][1] => i = j
        /\ (op = NoOp /\ op'.name = "index_module") =>
            IF op'.raised THEN modules' = modules
            ELSE /\ DictKeys(modules') = DictKeys(modules) \cup {op'.args[1]}
                 /\ DictGet(modules', op'.args[1]) = op'.value
                 /\ \A k \in DictKeys(modules) \ {op'.args[1]} :
                        DictGet(modules', k) = DictGet(modules, k)
        /\ (op = NoOp /\ op'.name = "index_all_modules") =>
            \E n \in 0..Len(op'.args) :
                /\ op'.raised <=> n < Len(op'.args)
                /\ n < Len(op'.args) =>
                        IndexModuleData(op'.args[n + 1], fs[op'.args[n + 1]]).raised
                /\ DictKeys(modules') = DictKeys(modules) \cup Prefix(op'.args, n)
                /\ \A k \in Prefix(op'.args, n) :
                        DictGet(modules', k) = IndexModuleData(k, fs[k]).value
                /\ \A k \in DictKeys(modules) \ Prefix(op'.args, n) :
                        DictGet(modules', k) = DictGet(modules, k)
        /\ (op # NoOp \/ op'.name \notin {"index_module", "index_all_modules"}) =>
            modules' = modules
      ]_vars

\* a package already in the map was indexed again, beside an entry of
\* another package that is older than that package's directory
C16_Witness ==
    /\ op.name = "index_module"
    /\ ~op.raised
    /\ Len(modules) = 2
    /\ modules[1][1] = op.args[1]
    /\ modules[1][2] = op.value
    /\ LET other == IndexModuleData(modules[2][1], fs[modules[2][1]])
       IN other.raised \/ other.value # modules[2][2]

-----------------------------------------------------------------------------
(* Claims on the command line *)

GuardedCommands == {"query_rag", "generate_diagram", "start_interactive_session"}

\* C17: query, diagram and interactive, run with a persistence directory
\* that does not exist or without the API credential, return normally with
\* the missing precondition reported and do nothing else: the store is not
\* opened, nothing is retrieved or generated, and no session starts.
C17_NoWorkWithoutPrecondition ==
    (/\ op.name \in GuardedCommands
     /\ (~PathExists(op.args[1]) \/ ~Truthy(op.args[2]))) =>
        /\ ~op.raised
        /\ op.calls = <<>>
        /\ op.value.error \in {PyStr(StoreNotFound(op.args[1])), PyStr(KeyNotSet)}
        /\ ~session.active

\* interactive was started on a filled store without the credential and
\* returned without a call
C17_Witness ==
    /\ op.name = "start_interactive_session"
    /\ PathExists(op.args[1])
    /\ op.args[2] = PyNone
    /\ Len(store) > 0
    /\ op.calls = <<>>
    /\ op.value.error = PyStr(KeyNotSet)
    /\ ~session.active

\* a retrieval or generation call of op carries text as its question
Submitted(text) ==
    \E i \in 1..Len(op.calls) :
        \/ /\ op.calls[i].svc = "collection.query"
           /\ op.calls[i].query_texts = <<text>>
        \/ /\ op.calls[i].svc = "messages.create"
           /\ PromptOf(op.calls[i]).query_str = text

\* C18: in the interactive session a line is submitted as a question only
\* if it is non-empty, does not begin with '/' and is not exit or quit: a
\* line beginning with '/' is never submitted, and an empty line triggers
\* no retrieval and no generation.
C18_OnlyQuestionsSubmitted ==
    (op.name = "interactive_loop" /\ op.args[2] # EndOfInput) =>
        LET question == Strip(op.args[2].v)
        IN /\ StartsWith(question, "/") => ~Submitted(question)
           /\ question = "" => op.calls = <<>>
           /\ Submitted(question) =>
                /\ question # ""
                /\ ~StartsWith(question, "/")
                /\ Lower(question) \notin {"exit", "quit"}

\* C20: in the interactive session a failure of the index or of the
\* generation service while a line is handled does not leave the loop as an
\* exception.
C20_NoFailureLeavesLoop ==
    (op.name = "interactive_loop") => ~op.raised

-----------------------------------------------------------------------------
(* Claims on search *)

\* C21: a search whose query the index answered returns the index's hits in
\* the index's order, at most k of them; when the store is empty or no
\* stored chunk satisfies the filter it returns the empty sequence and does
\* not raise.
C21_SearchAtMostK ==
    (op.name = "search" /\ Len(op.calls) = 1 /\ ~op.calls[1].raised) =>
        LET matching == {i \in 1..Len(store) : Matches(store[i].metadata, op.args[2])}
        IN /\ ~op.raised
           /\ Len(op.value) <= op.args[3]
           /\ op.value = op.calls[1].reply
           /\ matching = {} => op.value = <<>>

\* a filtered search on a filled store that holds no chunk of the package
\* asked for returned the empty sequence
C21_Witness ==
    /\ op.name = "search"
    /\ Len(store) > 0
    /\ op.args[2] # PyNone
    /\ \A i \in 1..Len(store) : ~Matches(store[i].metadata, op.args[2])
    /\ ~op.raised
    /\ Len(op.calls) = 1
    /\ ~op.calls[1].raised
    /\ op.value = <<>>

-----------------------------------------------------------------------------
(* Claims on chunk metadata *)

\* every value of a metadata dict is a string
AllStrings(metadata) == \A key \in DOMAIN metadata : metadata[key].t = "str"

\* C22: every metadata value of every chunk extract_chunks_for_embedding
\* emits, and of every such chunk add_chunks submits to the index, is a
\* string and not None.
C22_MetadataStrings ==
    /\ (op.name = "extract_chunks_for_embedding") =>
            \A j \in 1..Len(chunks) : AllStrings(chunks[j].metadata)
    /\ (op.name = "add_chunks" /\ op.args[1] = chunks) =>
            \A c \in 1..Len(op.calls) :
                op.calls[c].svc = "collection.add" =>
                    \A i \in 1..Len(op.calls[c].metadatas) :
                        AllStrings(op.calls[c].metadatas[i])

-----------------------------------------------------------------------------
(* Claims on the filters of the interactive session *)

\* the line handled by the loop pass in op is a question: not empty, not a
\* command, not exit or quit
PlainQuestion ==
    /\ op.name = "interactive_loop"
    /\ op.args[2] # EndOfInput
    /\ Strip(op.args[2].v) # ""
    /\ ~StartsWith(Strip(op.args[2].v), "/")
    /\ Lower(Strip(op.args[2].v)) \notin {"exit", "quit"}

\* the filters of the model-scoped search for a technical model
ModelScope(model_name) ==
    {[model_name |-> model_name], [type |-> PyStr("view"), model |-> model_name]}

\* C23: in the interactive session a question asked while a model filter
\* is set is answered from retrieval scoped to that model, and a question
\* asked while a package filter is set from retrieval filtered to that
\* package.
C23_FilterScopesQuestions ==
    PlainQuestion =>
        LET current_filter == op.args[1]
        IN /\ Len(RetrievalCalls) > 0
           /\ "model_name" \in DOMAIN current_filter =>
                \A i \in 1..Len(RetrievalCalls) :
                    RetrievalCalls[i].where \in ModelScope(current_filter.model_name)
           /\ "module" \in DOMAIN current_filter =>
                \A i \in 1..Len(RetrievalCalls) :
                    RetrievalCalls[i].where = [module |-> current_filter.module]

\* no filter, one package filter or one model filter
FilterShape(current_filter) ==
    \/ current_filter = PyNone
    \/ DOMAIN current_filter = {"module"} /\ current_filter.module.t = "str"
    \/ DOMAIN current_filter = {"model_name"} /\ current_filter.model_name.t = "str"

\* the filter a loop pass on the line leaves, given the filter before it
FilterAfter(before, line) ==
    LET question == Strip(line.v)
        parts == Split(question)
        command == IF StartsWith(question, "/") THEN Lower(parts[1]) ELSE ""
    IN IF command = "/clear" THEN PyNone
       ELSE IF command = "/module" /\ Len(parts) > 1 THEN [module |-> PyStr(parts[2])]
       ELSE IF command = "/model" /\ Len(parts) > 1 THEN [model_name |-> PyStr(parts[2])]
       ELSE before

\* C24: the session's filter is always no filter, one package filter or one
\* model filter; '/module <name>' and '/model <name>' replace it, '/clear'
\* resets it, every other line the loop goes on from leaves it as it was;
\* and no retrieval call of the session carries a filter with a null value.
C24_FilterState ==
    /\ FilterShape(session.current_filter)
    /\ (op.name = "interactive_loop" /\ session.active) =>
            session.current_filter = FilterAfter(op.args[1], op.args[2])
    /\ (op.name = "interactive_loop") =>
            \A i \in 1..Len(RetrievalCalls) :
                \/ RetrievalCalls[i].where = PyNone
                \/ \A key \in DOMAIN RetrievalCalls[i].where :
                        RetrievalCalls[i].where[key] # PyNone

====
